---- MODULE Spec2Model ----
(***************************************************************************)
(* MPC payout calculator: the calculation engine of src/src/lib/types.ts   *)
(* (get180dAverage, getPriceOnDate, calculatePayouts, summarizeByYear).    *)
(*                                                                         *)
(* Numbers are exact rationals <<n, d>> in lowest terms with d > 0: the    *)
(* IEEE-754 rounding of the JavaScript number type is not modelled.        *)
(* Dates are records [y, m, d] standing for the canonical ISO string       *)
(* "YYYY-MM-DD"; ToTime is what `new Date(string)` makes of such a string. *)
(***************************************************************************)
EXTENDS Integers, Sequences, FiniteSets, TLC

VARIABLES priceData, params, years, tzShift, pc, call, results, summaries

vars == <<priceData, params, years, tzShift, pc, call, results, summaries>>

---------------------------------------------------------------------------
(* Exact rational arithmetic (the JavaScript operators + - * / < > on     *)
(* number, without rounding).                                              *)

RECURSIVE GCD(_, _)
GCD(a, b) == IF b = 0 THEN a ELSE GCD(b, a % b)

Abs(x) == IF x < 0 THEN -x ELSE x

Norm(n, d) ==
    LET s == IF d < 0 THEN -1 ELSE 1
        g == GCD(Abs(n), Abs(d))
    IN  <<(s * n) \div g, (s * d) \div g>>

Rat(n) == <<n, 1>>
Frac(n, d) == Norm(n, d)
Zero == Rat(0)

Add(a, b) == Norm(a[1] * b[2] + b[1] * a[2], a[2] * b[2])
Sub(a, b) == Norm(a[1] * b[2] - b[1] * a[2], a[2] * b[2])
Mul(a, b) == Norm(a[1] * b[1], a[2] * b[2])
Div(a, b) == Norm(a[1] * b[2], a[2] * b[1])
Less(a, b) == a[1] * b[2] < b[1] * a[2]
Leq(a, b) == a[1] * b[2] <= b[1] * a[2]

---------------------------------------------------------------------------
(* Dates.                                                                  *)

Date(y, m, d) == [y |-> y, m |-> m, d |-> d]

\* Days since 1970-01-01 of a proleptic Gregorian calendar date.
DaysFromCivil(y, m, d) ==
    LET yy  == IF m <= 2 THEN y - 1 ELSE y
        era == yy \div 400
        yoe == yy - era * 400
        mp  == (m + 9) % 12
        doy == (153 * mp + 2) \div 5 + d - 1
        doe == yoe * 365 + yoe \div 4 - yoe \div 100 + doy
    IN  era * 146097 + doe - 719468

\* new Date("YYYY-MM-DD"): a date-only ISO string is UTC midnight.  The
\* time value is kept in hours.
ToTime(date) == DaysFromCivil(date.y, date.m, date.d) * 24

\* The order of two canonical "YYYY-MM-DD" strings under localeCompare:
\* digit strings of equal width compare field by field.
DateKey(date) == date.y * 10000 + date.m * 100 + date.d

---------------------------------------------------------------------------
(* The calculation engine.                                                 *)

Null == <<>>

WindowDays == 180
MinSamples == 30
\* Mutant: the month loop starts at January of the year itself.
FirstMonth_January == 2 - 1

FirstMonth == 2
LastMonth == 13

\* xs.reduce((sum, x) => sum + x, 0) over xs[lo..hi]; exact addition is
\* associative, so the sum is taken by halves.
RECURSIVE SumRange(_, _, _)
SumRange(xs, lo, hi) ==
    IF lo > hi THEN Zero
    ELSE IF lo = hi THEN xs[lo]
    ELSE LET mid == (lo + hi) \div 2
         IN  Add(SumRange(xs, lo, mid), SumRange(xs, mid + 1, hi))

SumRat(xs) == SumRange(xs, 1, Len(xs))

\* lookbackStart = new Date(target); lookbackStart.setDate(getDate() - 180).
\* getDate/setDate work on the host's LOCAL calendar and keep the local
\* time of day, so the instant moves back by 180 days plus the difference
\* between the host's UTC offsets at the two ends (tzShift, in hours: 0 in
\* a zone without daylight saving between the two dates).
LookbackStart(target) == target - WindowDays * 24 + tzShift

\* Mutant: the window is closed at its upper end, date <= target.
InLookback_Inclusive(date, lookbackStart, target) ==
    date >= lookbackStart /\ date <= target

\* date >= lookbackStart && date < target
InLookback(date, lookbackStart, target) == date >= lookbackStart /\ date < target

\* Mutant: no minimum number of samples, any non-empty window is averaged.
get180dAverage_NoMinimum(data, targetDate) ==
    LET target        == ToTime(targetDate)
        lookbackStart == LookbackStart(target)
        lookbackData  ==
            SelectSeq(data, LAMBDA d : InLookback(ToTime(d.date), lookbackStart, target))
    IN  IF Len(lookbackData) < 1
        THEN Null
        ELSE Div(SumRat([i \in 1..Len(lookbackData) |-> lookbackData[i].close]),
                 Rat(Len(lookbackData)))

get180dAverage(data, targetDate) ==
    LET target        == ToTime(targetDate)
        lookbackStart == LookbackStart(target)
        lookbackData  ==
            SelectSeq(data, LAMBDA d : InLookback(ToTime(d.date), lookbackStart, target))
    IN  IF Len(lookbackData) < MinSamples
        THEN Null
        ELSE Div(SumRat([i \in 1..Len(lookbackData) |-> lookbackData[i].close]),
                 Rat(Len(lookbackData)))

\* priceData.find(d => d.date === targetDate): the first in array order,
\* or Null.
FindExact(data, targetDate) ==
    LET exact == SelectSeq(data, LAMBDA d : d.date = targetDate)
    IN  IF exact # <<>> THEN Head(exact) ELSE Null

\* Mutant: backward lookup, the last observation on or before the target.
FindClosest_Backward(data, targetDate) ==
    LET target  == ToTime(targetDate)
        closest == SelectSeq(data, LAMBDA d : ToTime(d.date) <= target)
    IN  IF closest # <<>> THEN closest[Len(closest)] ELSE Null

\* priceData.find(d => new Date(d.date) >= target)
FindClosest(data, targetDate) ==
    LET target  == ToTime(targetDate)
        closest == SelectSeq(data, LAMBDA d : ToTime(d.date) >= target)
    IN  IF closest # <<>> THEN Head(closest) ELSE Null

\* The observation getPriceOnDate takes its price from, or Null.
PriceSource(data, targetDate) ==
    LET exact == FindExact(data, targetDate)
    IN  IF exact # Null THEN exact ELSE FindClosest(data, targetDate)

\* Mutant: only the exact match, no search for a later observation.
getPriceOnDate_ExactOnly(data, targetDate) ==
    LET src == FindExact(data, targetDate)
    IN  IF src = Null THEN Null ELSE src.close

getPriceOnDate(data, targetDate) ==
    LET src == PriceSource(data, targetDate)
    IN  IF src = Null THEN Null ELSE src.close

\* `${payoutYear}-${String(payoutMonth).padStart(2, '0')}-01`
PayoutDate(year, month) ==
    Date(IF month <= 12 THEN year ELSE year + 1,
         IF month <= 12 THEN month ELSE 1,
         1)

\* Mutant: a price exactly at the floor counts as a floor hit.
FloorHit_NonStrict(priceAtPayout, floorPrice) == Leq(priceAtPayout, floorPrice)

FloorHit(priceAtPayout, floorPrice) == Less(priceAtPayout, floorPrice)

\* Mutant: the ceiling comparison points the wrong way.
CeilingHit_Flipped(priceAtPayout, ceilingPrice) == Less(priceAtPayout, ceilingPrice)

CeilingHit(priceAtPayout, ceilingPrice) == Less(ceilingPrice, priceAtPayout)

\* Mutant: the ceiling is tested first.
Status_CeilingFirst(floorHit, ceilingHit) ==
    IF ceilingHit THEN "CEILING HIT" ELSE IF floorHit THEN "FLOOR HIT" ELSE "Normal"

Status(floorHit, ceilingHit) ==
    IF floorHit THEN "FLOOR HIT" ELSE IF ceilingHit THEN "CEILING HIT" ELSE "Normal"

\* Mutant: the band value is multiplied by the price instead of divided.
EffectiveNearTokens_Times(floorHit, ceilingHit, p, priceAtPayout, fixedNearTokens) ==
    IF floorHit
    THEN Mul(Mul(p.monthlyUsdTarget, p.floorPercent), priceAtPayout)
    ELSE IF ceilingHit
    THEN Mul(Mul(p.monthlyUsdTarget, p.ceilingPercent), priceAtPayout)
    ELSE fixedNearTokens

EffectiveNearTokens(floorHit, ceilingHit, p, priceAtPayout, fixedNearTokens) ==
    IF floorHit
    THEN Div(Mul(p.monthlyUsdTarget, p.floorPercent), priceAtPayout)
    ELSE IF ceilingHit
    THEN Div(Mul(p.monthlyUsdTarget, p.ceilingPercent), priceAtPayout)
    ELSE fixedNearTokens

\* Mutant: no repricing, the value of the fixed tokens is reported.
EffectiveUsdValue_Unadjusted(floorHit, ceilingHit, p, usdValueAtPayout) ==
    usdValueAtPayout

\* Mutant: the ceiling branch is missing, only the floor is guaranteed.
EffectiveUsdValue_NoCeiling(floorHit, ceilingHit, p, usdValueAtPayout) ==
    IF floorHit
    THEN Mul(p.monthlyUsdTarget, p.floorPercent)
    ELSE usdValueAtPayout

\* Mutant: inside the band the monthly target itself is reported.
EffectiveUsdValue_Target(floorHit, ceilingHit, p, usdValueAtPayout) ==
    IF floorHit
    THEN Mul(p.monthlyUsdTarget, p.floorPercent)
    ELSE IF ceilingHit
    THEN Mul(p.monthlyUsdTarget, p.ceilingPercent)
    ELSE p.monthlyUsdTarget

EffectiveUsdValue(floorHit, ceilingHit, p, usdValueAtPayout) ==
    IF floorHit
    THEN Mul(p.monthlyUsdTarget, p.floorPercent)
    ELSE IF ceilingHit
    THEN Mul(p.monthlyUsdTarget, p.ceilingPercent)
    ELSE usdValueAtPayout

\* One iteration of the month loop whose payout date resolved to a price.
PayoutRecord(p, year, month, basePrice, priceAtPayout) ==
    LET floorPrice       == Mul(basePrice, p.floorPercent)
        ceilingPrice     == Mul(basePrice, p.ceilingPercent)
        fixedNearTokens  == Div(p.monthlyUsdTarget, basePrice)
        usdValueAtPayout == Mul(fixedNearTokens, priceAtPayout)
        floorHit         == FloorHit(priceAtPayout, floorPrice)
        ceilingHit       == CeilingHit(priceAtPayout, ceilingPrice)
        effectiveNearTokens ==
            EffectiveNearTokens(floorHit, ceilingHit, p, priceAtPayout, fixedNearTokens)
    IN  [ year                |-> year,
          payoutDate          |-> PayoutDate(year, month),
          month               |-> IF month <= 12 THEN month ELSE 1,
          basePrice180d       |-> basePrice,
          floorPrice          |-> floorPrice,
          ceilingPrice        |-> ceilingPrice,
          fixedNearTokens     |-> fixedNearTokens,
          effectiveNearTokens |-> effectiveNearTokens,
          priceAtPayout       |-> priceAtPayout,
          usdValueAtPayout    |-> usdValueAtPayout,
          effectiveUsdValue   |->
              EffectiveUsdValue(floorHit, ceilingHit, p, usdValueAtPayout),
          floorHit            |-> floorHit,
          ceilingHit          |-> ceilingHit,
          status              |-> Status(floorHit, ceilingHit),
          nearDelta           |-> Sub(effectiveNearTokens, fixedNearTokens) ]

\* Mutant: the loop counter advances twice, every other month is left out.
RECURSIVE MonthLoop_EveryOtherMonth(_, _, _, _, _)
MonthLoop_EveryOtherMonth(data, p, year, basePrice, month) ==
    IF month > LastMonth THEN <<>>
    ELSE LET priceAtPayout == getPriceOnDate(data, PayoutDate(year, month))
             rest == MonthLoop_EveryOtherMonth(data, p, year, basePrice, month + 2)
         IN  IF priceAtPayout = Null
             THEN rest
             ELSE <<PayoutRecord(p, year, month, basePrice, priceAtPayout)>> \o rest

\* Mutant: the baseline is taken again at every payout date that has one.
RECURSIVE MonthLoop_RollingBaseline(_, _, _, _, _)
MonthLoop_RollingBaseline(data, p, year, basePrice, month) ==
    IF month > LastMonth THEN <<>>
    ELSE LET priceAtPayout == getPriceOnDate(data, PayoutDate(year, month))
             rolling == get180dAverage(data, PayoutDate(year, month))
             rest == MonthLoop_RollingBaseline(data, p, year, basePrice, month + 1)
         IN  IF priceAtPayout = Null
             THEN rest
             ELSE <<PayoutRecord(p, year, month,
                                 IF rolling = Null THEN basePrice ELSE rolling,
                                 priceAtPayout)>> \o rest

\* The month loop of one year: months FirstMonth..LastMonth in order, a
\* month whose payout date has no price is skipped.
RECURSIVE MonthLoop(_, _, _, _, _)
MonthLoop(data, p, year, basePrice, month) ==
    IF month > LastMonth THEN <<>>
    ELSE LET priceAtPayout == getPriceOnDate(data, PayoutDate(year, month))
             rest == MonthLoop(data, p, year, basePrice, month + 1)
         IN  IF priceAtPayout = Null
             THEN rest
             ELSE <<PayoutRecord(p, year, month, basePrice, priceAtPayout)>> \o rest

\* Mutant: the baseline is taken at the first payout date, 1 February.
YearLoopBody_FebruaryBaseline(data, p, year) ==
    LET basePrice == get180dAverage(data, Date(year, 2, 1))
    IN  IF basePrice = Null THEN <<>>
        ELSE MonthLoop(data, p, year, basePrice, FirstMonth)

\* One iteration of the year loop: nothing when the baseline is null.
YearLoopBody(data, p, year) ==
    LET basePrice == get180dAverage(data, Date(year, 1, 1))
    IN  IF basePrice = Null THEN <<>>
        ELSE MonthLoop(data, p, year, basePrice, FirstMonth)

RECURSIVE YearLoop(_, _, _)
YearLoop(data, p, ys) ==
    IF ys = <<>> THEN <<>>
    ELSE YearLoopBody(data, p, Head(ys)) \o YearLoop(data, p, Tail(ys))

\* Mutant: the records are compared by their month number only.
PayoutDateLeq_ByMonth(a, b) == a.month <= b.month

\* a.payoutDate.localeCompare(b.payoutDate) <= 0
PayoutDateLeq(a, b) == DateKey(a.payoutDate) <= DateKey(b.payoutDate)

\* Array.prototype.sort is stable: insertion after the last element that
\* does not compare greater.
RECURSIVE InsertSorted(_, _)
InsertSorted(sorted, r) ==
    IF sorted = <<>> THEN <<r>>
    ELSE IF PayoutDateLeq(sorted[Len(sorted)], r)
         THEN Append(sorted, r)
         ELSE Append(InsertSorted(SubSeq(sorted, 1, Len(sorted) - 1), r),
                     sorted[Len(sorted)])

RECURSIVE SortByPayoutDate(_)
SortByPayoutDate(rs) ==
    IF rs = <<>> THEN <<>>
    ELSE InsertSorted(SortByPayoutDate(SubSeq(rs, 1, Len(rs) - 1)), rs[Len(rs)])

\* Mutant: the records are returned in the order the loops pushed them.
calculatePayouts_Unsorted(data, p, ys) == YearLoop(data, p, ys)

calculatePayouts(data, p, ys) == SortByPayoutDate(YearLoop(data, p, ys))

---------------------------------------------------------------------------
(* The calculator whose band is configured either as percentages of the    *)
(* baseline or as absolute prices.  The page that configures absolute      *)
(* prices is in the repository; the loop is that of the calculator before  *)
(* effective repricing, the choice of the band follows the specification.  *)

\* The configuration populates floorPrice and ceilingPrice.
AbsoluteBand(p) == "floorPrice" \in DOMAIN p

\* Mutant: the absolute floor is applied as a multiplier of the baseline.
BandFloorPrice_Scaled(p, basePrice) ==
    IF AbsoluteBand(p) THEN Mul(basePrice, p.floorPrice)
    ELSE Mul(basePrice, p.floorPercent)

BandFloorPrice(p, basePrice) ==
    IF AbsoluteBand(p) THEN p.floorPrice ELSE Mul(basePrice, p.floorPercent)

BandCeilingPrice(p, basePrice) ==
    IF AbsoluteBand(p) THEN p.ceilingPrice ELSE Mul(basePrice, p.ceilingPercent)

BandRecord(p, year, month, basePrice, priceAtPayout) ==
    LET floorPrice      == BandFloorPrice(p, basePrice)
        ceilingPrice    == BandCeilingPrice(p, basePrice)
        fixedNearTokens == Div(p.monthlyUsdTarget, basePrice)
        floorHit        == FloorHit(priceAtPayout, floorPrice)
        ceilingHit      == CeilingHit(priceAtPayout, ceilingPrice)
    IN  [ year             |-> year,
          payoutDate       |-> PayoutDate(year, month),
          month            |-> IF month <= 12 THEN month ELSE 1,
          basePrice180d    |-> basePrice,
          floorPrice       |-> floorPrice,
          ceilingPrice     |-> ceilingPrice,
          fixedNearTokens  |-> fixedNearTokens,
          priceAtPayout    |-> priceAtPayout,
          usdValueAtPayout |-> Mul(fixedNearTokens, priceAtPayout),
          floorHit         |-> floorHit,
          ceilingHit       |-> ceilingHit,
          status           |-> Status(floorHit, ceilingHit) ]

RECURSIVE BandMonthLoop(_, _, _, _, _)
BandMonthLoop(data, p, year, basePrice, month) ==
    IF month > LastMonth THEN <<>>
    ELSE LET priceAtPayout == getPriceOnDate(data, PayoutDate(year, month))
             rest == BandMonthLoop(data, p, year, basePrice, month + 1)
         IN  IF priceAtPayout = Null
             THEN rest
             ELSE <<BandRecord(p, year, month, basePrice, priceAtPayout)>> \o rest

BandYearLoopBody(data, p, year) ==
    LET basePrice == get180dAverage(data, Date(year, 1, 1))
    IN  IF basePrice = Null THEN <<>>
        ELSE BandMonthLoop(data, p, year, basePrice, FirstMonth)

RECURSIVE BandYearLoop(_, _, _)
BandYearLoop(data, p, ys) ==
    IF ys = <<>> THEN <<>>
    ELSE BandYearLoopBody(data, p, Head(ys)) \o BandYearLoop(data, p, Tail(ys))

calculatePayoutsBand(data, p, ys) == SortByPayoutDate(BandYearLoop(data, p, ys))

---------------------------------------------------------------------------
(* summarizeByYear.                                                        *)

\* Mutant: the records are grouped by the year of their payoutDate.
YearGroup_ByPayoutYear(payouts, year) ==
    SelectSeq(payouts, LAMBDA r : r.payoutDate.y = year)

\* yearGroups[year]: the records of the year, in input order.
YearGroup(payouts, year) == SelectSeq(payouts, LAMBDA r : r.year = year)

TotalNearPaid(data) ==
    SumRat([i \in 1..Len(data) |-> data[i].effectiveNearTokens])

TotalNearIfNoAdjustment(data) ==
    SumRat([i \in 1..Len(data) |-> data[i].fixedNearTokens])

\* Mutant: the saving is summed with the sign of nearDelta.
NearSavedByCeiling_Signed(data) ==
    LET hit == SelectSeq(data, LAMBDA r : r.ceilingHit)
    IN  SumRat([i \in 1..Len(hit) |->
                   Sub(hit[i].effectiveNearTokens, hit[i].fixedNearTokens)])

NearSavedByCeiling(data) ==
    LET hit == SelectSeq(data, LAMBDA r : r.ceilingHit)
    IN  SumRat([i \in 1..Len(hit) |->
                   Sub(hit[i].fixedNearTokens, hit[i].effectiveNearTokens)])

\* Mutant: the filter on floorHit is missing, every record is summed.
NearAddedByFloor_AllRecords(data) ==
    SumRat([i \in 1..Len(data) |->
               Sub(data[i].effectiveNearTokens, data[i].fixedNearTokens)])

NearAddedByFloor(data) ==
    LET hit == SelectSeq(data, LAMBDA r : r.floorHit)
    IN  SumRat([i \in 1..Len(hit) |->
                   Sub(hit[i].effectiveNearTokens, hit[i].fixedNearTokens)])

\* Mutant: the mean of usdValueAtPayout, as before effective repricing.
AvgUsdValue_Unadjusted(data) ==
    Div(SumRat([i \in 1..Len(data) |-> data[i].usdValueAtPayout]), Rat(Len(data)))

AvgUsdValue(data) ==
    Div(SumRat([i \in 1..Len(data) |-> data[i].effectiveUsdValue]), Rat(Len(data)))

\* Mutant: normalCount counts every record that is not a ceiling hit.
Summary_NormalNotCeiling(year, data) ==
    [ year            |-> year,
      basePrice180d   |-> data[1].basePrice180d,
      floorPrice      |-> data[1].floorPrice,
      ceilingPrice    |-> data[1].ceilingPrice,
      fixedNearTokens |-> data[1].fixedNearTokens,
      floorCount      |-> Len(SelectSeq(data, LAMBDA r : r.floorHit)),
      ceilingCount    |-> Len(SelectSeq(data, LAMBDA r : r.ceilingHit)),
      normalCount     |-> Len(SelectSeq(data, LAMBDA r : ~r.ceilingHit)),
      totalPayouts    |-> Len(data),
      avgUsdValue     |-> AvgUsdValue(data),
      totalNearPaid   |-> TotalNearPaid(data),
      totalNearIfNoAdjustment |-> TotalNearIfNoAdjustment(data),
      nearSavedByCeiling |-> NearSavedByCeiling(data),
      nearAddedByFloor   |-> NearAddedByFloor(data) ]

Summary(year, data) ==
    [ year            |-> year,
      basePrice180d   |-> data[1].basePrice180d,
      floorPrice      |-> data[1].floorPrice,
      ceilingPrice    |-> data[1].ceilingPrice,
      fixedNearTokens |-> data[1].fixedNearTokens,
      floorCount      |-> Len(SelectSeq(data, LAMBDA r : r.floorHit)),
      ceilingCount    |-> Len(SelectSeq(data, LAMBDA r : r.ceilingHit)),
      normalCount     |->
          Len(SelectSeq(data, LAMBDA r : ~r.floorHit /\ ~r.ceilingHit)),
      totalPayouts    |-> Len(data),
      avgUsdValue     |-> AvgUsdValue(data),
      totalNearPaid   |-> TotalNearPaid(data),
      totalNearIfNoAdjustment |-> TotalNearIfNoAdjustment(data),
      nearSavedByCeiling |-> NearSavedByCeiling(data),
      nearAddedByFloor   |-> NearAddedByFloor(data) ]

\* Mutant: the comparator is b.year - a.year, the newest year comes first.
RECURSIVE SummariesOf_Descending(_, _)
SummariesOf_Descending(payouts, ys) ==
    IF ys = {} THEN <<>>
    ELSE LET y == CHOOSE x \in ys : \A z \in ys : x >= z
         IN  <<Summary(y, YearGroup(payouts, y))>>
                 \o SummariesOf_Descending(payouts, ys \ {y})

\* One summary per key of yearGroups, sorted by (a, b) => a.year - b.year.
RECURSIVE SummariesOf(_, _)
SummariesOf(payouts, ys) ==
    IF ys = {} THEN <<>>
    ELSE LET y == CHOOSE x \in ys : \A z \in ys : x <= z
         IN  <<Summary(y, YearGroup(payouts, y))>>
                 \o SummariesOf(payouts, ys \ {y})

summarizeByYear(payouts) ==
    SummariesOf(payouts, {payouts[i].year : i \in 1..Len(payouts)})

---------------------------------------------------------------------------
(* Inputs.  A series is a run of dated observations, NumMonths calendar    *)
(* months from June 2020 on, on the 5th, 10th, ... 25th of each month and, *)
(* when desc.first, on the 1st too; desc.skip leading observations are     *)
(* left out, desc.months months are kept, desc.rev stores it newest first. *)

MaxYears == 2
NumMonths == 32
FirstYear == 2021

DaysOfMonth(first) == IF first THEN <<1, 5, 10, 15, 20, 25>> ELSE <<5, 10, 15, 20, 25>>

\* The close of each calendar month, January..December, of a series that
\* is not flat.
MonthPrices ==
    << Rat(5), Rat(1), Frac(8, 5), Rat(2), Frac(17, 5), Rat(5),
       Rat(3), Rat(1), Rat(5), Rat(1), Rat(5), Rat(3) >>

\* June 2020 costs 5.00 and July..December 2020 cost 2.00; from 2021 on a
\* flat series stays at 2.00 and any other follows MonthPrices.
CloseOf(y, m, flat) ==
    IF y = 2020 THEN (IF m = 6 THEN Rat(5) ELSE Rat(2))
    ELSE IF flat THEN Rat(2) ELSE MonthPrices[m]

Observation(i, desc) ==
    LET k  == Len(DaysOfMonth(desc.first))
        mi == (i - 1) \div k
        j  == ((i - 1) % k) + 1
        y  == 2020 + (5 + mi) \div 12
        m  == ((5 + mi) % 12) + 1
    IN  [ date  |-> Date(y, m, DaysOfMonth(desc.first)[j]),
          close |-> CloseOf(y, m, desc.flat) ]

Reverse(seq) == [i \in 1..Len(seq) |-> seq[Len(seq) + 1 - i]]

Series(desc) ==
    LET n    == desc.months * Len(DaysOfMonth(desc.first))
        kept == [i \in 1..(IF n > desc.skip THEN n - desc.skip ELSE 0) |->
                    Observation(i + desc.skip, desc)]
    IN  IF desc.rev THEN Reverse(kept) ELSE kept

SeriesChoices ==
    [first : {FALSE}, flat : {FALSE}, skip : {0, 5, 6, 25},
     months : {NumMonths}, rev : {FALSE}]
    \cup [first : {TRUE}, flat : BOOLEAN, skip : {0},
          months : {NumMonths}, rev : {FALSE}]
    \cup [first : {TRUE}, flat : {FALSE}, skip : {0},
          months : {13, NumMonths}, rev : {TRUE}]
    \cup [first : {TRUE}, flat : {FALSE}, skip : {0}, months : {13}, rev : {FALSE}]
    \cup [first : {TRUE}, flat : {TRUE}, skip : {0}, months : {0}, rev : {FALSE}]

ParamChoices ==
    { [monthlyUsdTarget |-> Rat(7200), floorPercent |-> Frac(4, 5),
       ceilingPercent |-> Frac(17, 10)],
      [monthlyUsdTarget |-> Rat(100), floorPercent |-> Frac(1, 2),
       ceilingPercent |-> Rat(2)],
      [monthlyUsdTarget |-> Rat(7200), floorPercent |-> Frac(17, 10),
       ceilingPercent |-> Frac(4, 5)] }

YearChoices == UNION {[1..k -> {FirstYear, FirstYear + 1}] : k \in 0..MaxYears}

TargetDates ==
    { Date(2021, 1, 1), Date(2021, 2, 1), Date(2021, 3, 3), Date(2022, 1, 1),
      Date(2024, 1, 1) }

\* The host's UTC offset at a reference date minus its offset 180 local
\* days earlier, in hours.
TzShifts == {-1, 0, 1}

---------------------------------------------------------------------------
(* The state machine: a caller holding (priceData, params, years) calls    *)
(* the exported functions.                                                 *)

\* call: the last lookup made, with the observation it read its price from.
NoCall ==
    [op |-> "none", targetDate |-> Date(0, 0, 0), source |-> Null, result |-> Null]

Init ==
    /\ priceData \in {Series(desc) : desc \in SeriesChoices}
    /\ params \in ParamChoices
    /\ years \in YearChoices
    /\ tzShift \in TzShifts
    /\ pc = "ready"
    /\ call = NoCall
    /\ results = <<>>
    /\ summaries = <<>>

Get180dAverage(t) ==
    /\ pc = "ready"
    /\ call' = [op |-> "get180dAverage", targetDate |-> t, source |-> Null,
                result |-> get180dAverage(priceData, t)]
    /\ pc' = "lookup"
    /\ UNCHANGED <<priceData, params, years, tzShift, results, summaries>>

GetPriceOnDate(t) ==
    /\ pc = "ready"
    /\ call' = [op |-> "getPriceOnDate", targetDate |-> t,
                source |-> PriceSource(priceData, t),
                result |-> getPriceOnDate(priceData, t)]
    /\ pc' = "lookup"
    /\ UNCHANGED <<priceData, params, years, tzShift, results, summaries>>

\* Mutant: years.sort() puts the caller's list in ascending order.
CalculatePayouts_SortsYears ==
    /\ pc = "ready"
    /\ results' = calculatePayouts(priceData, params, years)
    /\ years' = CHOOSE zs \in [1..Len(years) -> {years[i] : i \in 1..Len(years)}] :
                    /\ \A i \in 1..(Len(zs) - 1) : zs[i] <= zs[i + 1]
                    /\ \A y \in {years[i] : i \in 1..Len(years)} :
                           Cardinality({i \in 1..Len(zs) : zs[i] = y})
                               = Cardinality({i \in 1..Len(years) : years[i] = y})
    /\ pc' = "payouts"
    /\ UNCHANGED <<priceData, params, tzShift, call, summaries>>

CalculatePayouts ==
    /\ pc = "ready"
    /\ results' = calculatePayouts(priceData, params, years)
    /\ pc' = "payouts"
    /\ UNCHANGED <<priceData, params, years, tzShift, call, summaries>>

SummarizeByYear ==
    /\ pc = "payouts"
    /\ summaries' = summarizeByYear(results)
    /\ pc' = "summaries"
    /\ UNCHANGED <<priceData, params, years, tzShift, call, results>>

Next ==
    \/ \E t \in TargetDates : Get180dAverage(t)
    \/ \E t \in TargetDates : GetPriceOnDate(t)
    \/ CalculatePayouts
    \/ SummarizeByYear

Spec == Init /\ [][Next]_vars

---------------------------------------------------------------------------
(* The page that configures the band: absolute prices (1.50 and 3.00 as    *)
(* the page starts, or edited) or percentages.                             *)

BandParamChoices ==
    { [monthlyUsdTarget |-> Rat(7200), floorPrice |-> Frac(3, 2),
       ceilingPrice |-> Rat(3)],
      [monthlyUsdTarget |-> Rat(7200), floorPrice |-> Rat(1),
       ceilingPrice |-> Rat(4)],
      [monthlyUsdTarget |-> Rat(7200), floorPercent |-> Frac(4, 5),
       ceilingPercent |-> Frac(17, 10)] }

BandInit ==
    /\ priceData \in {Series(desc) : desc \in SeriesChoices}
    /\ params \in BandParamChoices
    /\ years \in YearChoices
    /\ tzShift \in TzShifts
    /\ pc = "ready"
    /\ call = NoCall
    /\ results = <<>>
    /\ summaries = <<>>

CalculatePayoutsBand ==
    /\ pc = "ready"
    /\ results' = calculatePayoutsBand(priceData, params, years)
    /\ pc' = "payouts"
    /\ UNCHANGED <<priceData, params, years, tzShift, call, summaries>>

BandNext == CalculatePayoutsBand

BandSpec == BandInit /\ [][BandNext]_vars

---------------------------------------------------------------------------
(* The page: it holds params, shows calculatePayouts(priceData, params)    *)
(* for the default years and its summaries, and every edit of one of its   *)
(* three number inputs stores the parsed value and computes both again.    *)

\* years = [2021, 2022, 2023, 2024, 2025, 2026]
DefaultYears == [i \in 1..6 |-> FirstYear + i - 1]

InitialParams ==
    [monthlyUsdTarget |-> Rat(7200), floorPercent |-> Frac(4, 5),
     ceilingPercent |-> Frac(17, 10)]

\* What a number input holds: the text of a number, <<n>>, or text that
\* parseFloat reads as NaN (the empty field), <<>>.
NotANumber == <<>>
TargetInputs == {NotANumber, <<100>>, <<7200>>}
PercentInputs == {NotANumber, <<80>>, <<120>>, <<170>>}

\* parseFloat(e.target.value) || 0
ParseInput(v) == IF v = NotANumber THEN Rat(0) ELSE Rat(v[1])

PageSeriesChoices ==
    [first : {TRUE}, flat : {FALSE}, skip : {0}, months : {NumMonths}, rev : {FALSE}]

\* A render of the page with params p: both memos are computed.
Render(p) ==
    /\ params' = p
    /\ results' = calculatePayouts(priceData, p, DefaultYears)
    /\ summaries' = summarizeByYear(results')
    /\ pc' = "page"
    /\ UNCHANGED <<priceData, years, tzShift, call>>

\* The component as useState has built it, before its first render.
PageInit ==
    /\ priceData \in {Series(desc) : desc \in PageSeriesChoices}
    /\ params = InitialParams
    /\ years = DefaultYears
    /\ tzShift \in TzShifts
    /\ pc = "mount"
    /\ call = NoCall
    /\ results = <<>>
    /\ summaries = <<>>

FirstRender ==
    /\ pc = "mount"
    /\ Render(params)

EditMonthlyUsdTarget(v) ==
    /\ pc = "page"
    /\ Render([params EXCEPT !.monthlyUsdTarget = ParseInput(v)])

EditFloorPercent(v) ==
    /\ pc = "page"
    /\ Render([params EXCEPT !.floorPercent = Div(ParseInput(v), Rat(100))])

EditCeilingPercent(v) ==
    /\ pc = "page"
    /\ Render([params EXCEPT !.ceilingPercent = Div(ParseInput(v), Rat(100))])

PageNext ==
    \/ FirstRender
    \/ \E v \in TargetInputs : EditMonthlyUsdTarget(v)
    \/ \E v \in PercentInputs : EditFloorPercent(v)
    \/ \E v \in PercentInputs : EditCeilingPercent(v)

PageSpec == PageInit /\ [][PageNext]_vars

---------------------------------------------------------------------------
(* Properties.                                                             *)

Calculated == pc \in {"payouts", "summaries"}

Records == {results[i] : i \in 1..Len(results)}

Summaries == {summaries[i] : i \in 1..Len(summaries)}

\* monthlyUsdTarget > 0 and 0 < floorPercent < 1 < ceilingPercent
ValidParams ==
    /\ Less(Zero, params.monthlyUsdTarget)
    /\ Less(Zero, params.floorPercent)
    /\ Less(params.floorPercent, Rat(1))
    /\ Less(Rat(1), params.ceilingPercent)

PositivePrices == \A i \in 1..Len(priceData) : Less(Zero, priceData[i].close)

FloorUsd == Mul(params.monthlyUsdTarget, params.floorPercent)
CeilingUsd == Mul(params.monthlyUsdTarget, params.ceilingPercent)

\* C1: on every FLOOR HIT record effectiveUsdValue is monthlyUsdTarget x
\* floorPercent and effectiveNearTokens is that value / priceAtPayout; on
\* every CEILING HIT record the same with ceilingPercent.
C1_BandValues ==
    Calculated =>
        \A r \in Records :
            /\ r.status = "FLOOR HIT" =>
                   /\ r.effectiveUsdValue = FloorUsd
                   /\ r.effectiveNearTokens = Div(FloorUsd, r.priceAtPayout)
            /\ r.status = "CEILING HIT" =>
                   /\ r.effectiveUsdValue = CeilingUsd
                   /\ r.effectiveNearTokens = Div(CeilingUsd, r.priceAtPayout)

\* The two scenarios of the specification: baseline 2.00, target 7200,
\* band 0.8/1.7; price 1.00 pays 5760 USD in 5760 tokens, price 5.00 pays
\* 12240 USD in 2448 tokens.
C1_Witness ==
    /\ Calculated
    /\ params.monthlyUsdTarget = Rat(7200)
    /\ \E r \in Records :
           /\ r.status = "FLOOR HIT" /\ r.basePrice180d = Rat(2)
           /\ r.priceAtPayout = Rat(1)
           /\ r.effectiveUsdValue = Rat(5760) /\ r.effectiveNearTokens = Rat(5760)
    /\ \E r \in Records :
           /\ r.status = "CEILING HIT" /\ r.basePrice180d = Rat(2)
           /\ r.priceAtPayout = Rat(5)
           /\ r.effectiveUsdValue = Rat(12240) /\ r.effectiveNearTokens = Rat(2448)

\* C2: with valid params and positive prices, nearDelta is >= 0 on a FLOOR
\* HIT record, <= 0 on a CEILING HIT record and 0 on a Normal record.
C2_NearDeltaSign ==
    (Calculated /\ ValidParams /\ PositivePrices) =>
        \A r \in Records :
            /\ r.nearDelta = Sub(r.effectiveNearTokens, r.fixedNearTokens)
            /\ r.status = "FLOOR HIT" => Leq(Zero, r.nearDelta)
            /\ r.status = "CEILING HIT" => Leq(r.nearDelta, Zero)
            /\ r.status = "Normal" => r.nearDelta = Zero

C2_Witness ==
    /\ Calculated /\ ValidParams /\ PositivePrices
    /\ \E r \in Records : r.status = "FLOOR HIT" /\ Less(Zero, r.nearDelta)
    /\ \E r \in Records : r.status = "CEILING HIT" /\ Less(r.nearDelta, Zero)
    /\ \E r \in Records : r.status = "Normal" /\ r.nearDelta = Zero

\* C3: with valid params and positive prices every year summary satisfies
\* totalNearPaid = totalNearIfNoAdjustment + nearAddedByFloor -
\* nearSavedByCeiling.
C3_YearTotals ==
    (pc = "summaries" /\ ValidParams /\ PositivePrices) =>
        \A s \in Summaries :
            s.totalNearPaid =
                Sub(Add(s.totalNearIfNoAdjustment, s.nearAddedByFloor),
                    s.nearSavedByCeiling)

C3_Witness ==
    /\ pc = "summaries" /\ ValidParams /\ PositivePrices
    /\ \E s \in Summaries :
           /\ Less(Zero, s.nearAddedByFloor)
           /\ Less(Zero, s.nearSavedByCeiling)
           /\ s.normalCount > 0

\* C4: with 0 < floorPercent < 1 < ceilingPercent and a positive baseline,
\* every record has floorPrice < ceilingPrice and never both floorHit and
\* ceilingHit.
C4_BandOrder ==
    (Calculated /\ ValidParams) =>
        \A r \in Records :
            Less(Zero, r.basePrice180d) =>
                /\ Less(r.floorPrice, r.ceilingPrice)
                /\ ~(r.floorHit /\ r.ceilingHit)

C4_Witness ==
    /\ Calculated /\ ValidParams
    /\ \E r \in Records : Less(Zero, r.basePrice180d) /\ r.floorHit
    /\ \E r \in Records : Less(Zero, r.basePrice180d) /\ r.ceilingHit

\* C5: the records calculatePayouts returns are in non-decreasing order of
\* payoutDate, whatever the order of years and with repeated years.
C5_SortedByPayoutDate ==
    Calculated =>
        \A i, j \in 1..Len(results) :
            i < j => ToTime(results[i].payoutDate) <= ToTime(results[j].payoutDate)

\* years in descending order, both years paid out.
C5_Witness ==
    /\ Calculated
    /\ years = <<FirstYear + 1, FirstYear>>
    /\ \E i, j \in 1..Len(results) :
           i < j /\ results[i].year = FirstYear /\ results[j].year = FirstYear + 1

\* The observations dated in [ref - 180 days, ref), by calendar date.
WindowObs(data, ref) ==
    SelectSeq(data, LAMBDA d :
        /\ DaysFromCivil(d.date.y, d.date.m, d.date.d)
               >= DaysFromCivil(ref.y, ref.m, ref.d) - WindowDays
        /\ DaysFromCivil(d.date.y, d.date.m, d.date.d)
               < DaysFromCivil(ref.y, ref.m, ref.d))

Mean(obs) == Div(SumRat([i \in 1..Len(obs) |-> obs[i].close]), Rat(Len(obs)))

\* C6: get180dAverage returns null whenever fewer than 30 observations are
\* dated in [ref - 180 days, ref), and a number when exactly 30 are.
C6_MinSamples ==
    call.op = "get180dAverage" =>
        LET q == Len(WindowObs(priceData, call.targetDate))
        IN  /\ q < MinSamples => call.result = Null
            /\ q = MinSamples => call.result # Null

\* C7: a number returned by get180dAverage is the mean of the close of
\* exactly the observations dated in [ref - 180 days, ref).
C7_WindowMean ==
    (call.op = "get180dAverage" /\ call.result # Null) =>
        call.result = Mean(WindowObs(priceData, call.targetDate))

\* Each observation is dated before the next one.
SortedAscending(data) ==
    \A i \in 1..(Len(data) - 1) : ToTime(data[i].date) < ToTime(data[i + 1].date)

\* The indices of the observations dated on t, and after t.
DatedOn(data, t) == {i \in 1..Len(data) : data[i].date = t}
DatedAfter(data, t) == {i \in 1..Len(data) : ToTime(data[i].date) > ToTime(t)}

\* C8: getPriceOnDate returns the close of the observation dated exactly t
\* when there is one; otherwise, on a series sorted ascending, the close of
\* the earliest observation dated after t; never the price of an
\* observation dated before t.
C8_PriceOnOrAfter ==
    call.op = "getPriceOnDate" =>
        LET t     == call.targetDate
            on    == DatedOn(priceData, t)
            after == DatedAfter(priceData, t)
        IN  /\ on # {} => \E i \in on : call.result = priceData[i].close
            /\ (on = {} /\ after # {} /\ SortedAscending(priceData)) =>
                   \E i \in after :
                       /\ \A j \in after :
                              ToTime(priceData[i].date) <= ToTime(priceData[j].date)
                       /\ call.result = priceData[i].close
            /\ call.result # Null =>
                   /\ call.source # Null
                   /\ call.result = call.source.close
                   /\ ToTime(call.source.date) >= ToTime(t)

\* No exact match on a sorted series that holds earlier observations at
\* another price: the next later observation is read.
C8_Witness ==
    /\ call.op = "getPriceOnDate"
    /\ SortedAscending(priceData)
    /\ DatedOn(priceData, call.targetDate) = {}
    /\ call.source # Null
    /\ ToTime(call.source.date) > ToTime(call.targetDate)
    /\ \E i \in 1..Len(priceData) :
           /\ ToTime(priceData[i].date) < ToTime(call.targetDate)
           /\ priceData[i].close # call.result

\* C9: getPriceOnDate returns null exactly when no observation is dated on
\* or after t.
C9_NullIffNoneOnOrAfter ==
    call.op = "getPriceOnDate" =>
        (call.result = Null
            <=> ~ \E i \in 1..Len(priceData) :
                      ToTime(priceData[i].date) >= ToTime(call.targetDate))

\* A target beyond the last observation of a non-empty series.
C9_Witness ==
    /\ call.op = "getPriceOnDate"
    /\ call.result = Null
    /\ priceData # <<>>
    /\ \A i \in 1..Len(priceData) :
           ToTime(priceData[i].date) < ToTime(call.targetDate)

\* The 180-day baseline of year y is unavailable: fewer than 30
\* observations in the window before y-01-01.
Unavailable(y) == Len(WindowObs(priceData, Date(y, 1, 1))) < MinSamples

\* C10: a requested year whose baseline is unavailable contributes no
\* record and no summary, and the records of the other years are what they
\* are without it.
C10_SkipsYearWithoutBaseline ==
    Calculated =>
        \A k \in 1..Len(years) :
            Unavailable(years[k]) =>
                /\ \A r \in Records : r.year # years[k]
                /\ pc = "summaries" => \A s \in Summaries : s.year # years[k]
                /\ results =
                       calculatePayouts(priceData, params,
                           SelectSeq(years, LAMBDA y : y # years[k]))

\* 2021 has 10 observations in its window, 2022 is paid out.
C10_Witness ==
    /\ pc = "summaries"
    /\ years = <<FirstYear, FirstYear + 1>>
    /\ Len(WindowObs(priceData, Date(FirstYear, 1, 1))) = 10
    /\ \A r \in Records : r.year = FirstYear + 1
    /\ Len(results) = 12
    /\ Len(summaries) = 1

---------------------------------------------------------------------------
(* The month loop.                                                         *)

\* The number of times year y is listed in years.
Occurrences(y) == Cardinality({i \in 1..Len(years) : years[i] = y})

\* The baseline of year y is available: get180dAverage gives a number.
BaselineAvailable(y) == get180dAverage(priceData, Date(y, 1, 1)) # Null

\* Some observation is dated on or after t, so that a lookup of t resolves.
Resolves(t) ==
    LET target == ToTime(t)
    IN  \E i \in 1..Len(priceData) : ToTime(priceData[i].date) >= target

\* The number of records of year y paid on date t.
RecordsOn(y, t) ==
    Cardinality({i \in 1..Len(results) :
                    results[i].year = y /\ results[i].payoutDate = t})

RecordsOfYear(y) == Cardinality({i \in 1..Len(results) : results[i].year = y})

\* C11 as stated: every listed year with a baseline has exactly one record
\* for each month index 2..13 whose payout date resolves, none for a month
\* that does not resolve, at most 12 records in all and none paid on 1
\* January of the year itself.
C11_OneRecordPerMonth ==
    Calculated =>
        \A i \in 1..Len(years) :
            LET y == years[i]
            IN  BaselineAvailable(y) =>
                    /\ \A m \in FirstMonth..LastMonth :
                           RecordsOn(y, PayoutDate(y, m)) =
                               IF Resolves(PayoutDate(y, m)) THEN 1 ELSE 0
                    /\ RecordsOfYear(y) <= 12
                    /\ RecordsOn(y, Date(y, 1, 1)) = 0

\* C11 amended: each occurrence of a year in years runs the month loop, so
\* a year listed k times has k records for each month index 2..13 whose
\* payout date resolves, none for a month that does not resolve, at most
\* 12 x k records in all and none paid on 1 January of the year itself.
C11_OneRecordPerMonthPerOccurrence ==
    Calculated =>
        \A i \in 1..Len(years) :
            LET y == years[i]
            IN  BaselineAvailable(y) =>
                    /\ \A m \in FirstMonth..LastMonth :
                           RecordsOn(y, PayoutDate(y, m)) =
                               IF Resolves(PayoutDate(y, m))
                               THEN Occurrences(y) ELSE 0
                    /\ RecordsOfYear(y) <= 12 * Occurrences(y)
                    /\ RecordsOn(y, Date(y, 1, 1)) = 0

\* A year listed twice whose baseline is available, with a month that
\* resolved (two records) and a later month that did not (none).
C11_Witness ==
    /\ Calculated
    /\ \E y \in {years[i] : i \in 1..Len(years)} :
           /\ Occurrences(y) = 2
           /\ BaselineAvailable(y)
           /\ \E m1, m2 \in FirstMonth..LastMonth :
                  /\ m1 < m2
                  /\ Resolves(PayoutDate(y, m1))
                  /\ RecordsOn(y, PayoutDate(y, m1)) = 2
                  /\ ~Resolves(PayoutDate(y, m2))
                  /\ RecordsOn(y, PayoutDate(y, m2)) = 0

---------------------------------------------------------------------------
(* The band comparisons and the Normal branch.                             *)

\* C12 as stated: floorHit is priceAtPayout < floorPrice and ceilingHit is
\* priceAtPayout > ceilingPrice, and a record priced exactly at floorPrice
\* or exactly at ceilingPrice has status Normal.
C12_StrictComparisons ==
    Calculated =>
        \A r \in Records :
            /\ r.floorHit <=> Less(r.priceAtPayout, r.floorPrice)
            /\ r.ceilingHit <=> Less(r.ceilingPrice, r.priceAtPayout)
            /\ (r.priceAtPayout = r.floorPrice \/ r.priceAtPayout = r.ceilingPrice)
                   => r.status = "Normal"

\* C12 amended: the two comparisons are strict on every record, and where
\* floorPrice <= ceilingPrice a record priced exactly at floorPrice or
\* exactly at ceilingPrice has status Normal.
C12_StrictComparisonsInBand ==
    Calculated =>
        \A r \in Records :
            /\ r.floorHit <=> Less(r.priceAtPayout, r.floorPrice)
            /\ r.ceilingHit <=> Less(r.ceilingPrice, r.priceAtPayout)
            /\ ( /\ Leq(r.floorPrice, r.ceilingPrice)
                 /\ (r.priceAtPayout = r.floorPrice
                        \/ r.priceAtPayout = r.ceilingPrice) )
                   => r.status = "Normal"

\* A Normal record priced exactly at its floorPrice and a Normal record
\* priced exactly at its ceilingPrice, next to a floor hit and a ceiling hit.
C12_Witness ==
    /\ Calculated
    /\ \E r1, r2, r3, r4 \in Records :
           /\ Less(r1.floorPrice, r1.ceilingPrice)
           /\ r1.priceAtPayout = r1.floorPrice /\ r1.status = "Normal"
           /\ Less(r2.floorPrice, r2.ceilingPrice)
           /\ r2.priceAtPayout = r2.ceilingPrice /\ r2.status = "Normal"
           /\ r3.floorHit /\ ~r3.ceilingHit
           /\ r4.ceilingHit /\ ~r4.floorHit

\* C13: on every Normal record effectiveNearTokens is fixedNearTokens and
\* effectiveUsdValue is fixedNearTokens x priceAtPayout, the value held in
\* usdValueAtPayout.
C13_NormalUnadjusted ==
    Calculated =>
        \A r \in Records :
            r.status = "Normal" =>
                /\ r.effectiveNearTokens = r.fixedNearTokens
                /\ r.effectiveUsdValue = Mul(r.fixedNearTokens, r.priceAtPayout)
                /\ r.effectiveUsdValue = r.usdValueAtPayout

\* A Normal record priced away from its baseline, worth more than the
\* monthly target: 3600 tokens at 3.00 are 10800 against a target of 7200.
C13_Witness ==
    /\ Calculated
    /\ \E r \in Records :
           /\ r.status = "Normal"
           /\ r.priceAtPayout = Rat(3)
           /\ r.fixedNearTokens = Rat(3600)
           /\ r.effectiveUsdValue = Rat(10800)
           /\ Less(params.monthlyUsdTarget, r.effectiveUsdValue)

\* C14: every record of year Y carries basePrice180d =
\* get180dAverage(priceData, Y-01-01), floorPrice = basePrice180d x
\* floorPercent, ceilingPrice = basePrice180d x ceilingPercent,
\* fixedNearTokens = monthlyUsdTarget / basePrice180d and usdValueAtPayout =
\* fixedNearTokens x priceAtPayout.
C14_YearConstants ==
    Calculated =>
        \A y \in {r.year : r \in Records} :
            LET base == get180dAverage(priceData, Date(y, 1, 1))
            IN  \A r \in Records :
                    r.year = y =>
                        /\ r.basePrice180d = base
                        /\ r.floorPrice = Mul(r.basePrice180d, params.floorPercent)
                        /\ r.ceilingPrice = Mul(r.basePrice180d, params.ceilingPercent)
                        /\ r.fixedNearTokens =
                               Div(params.monthlyUsdTarget, r.basePrice180d)
                        /\ r.usdValueAtPayout =
                               Mul(r.fixedNearTokens, r.priceAtPayout)

\* Records of two years with different baselines: 2021 at 2.00 (band 1.60
\* to 3.40, 3600 tokens) and 2022 at 3.00 (band 2.40 to 5.10, 2400 tokens).
C14_Witness ==
    /\ Calculated
    /\ \E r1, r2 \in Records :
           /\ r1.year = 2021 /\ r1.basePrice180d = Rat(2)
           /\ r1.floorPrice = Frac(8, 5) /\ r1.ceilingPrice = Frac(17, 5)
           /\ r1.fixedNearTokens = Rat(3600)
           /\ r2.year = 2022 /\ r2.basePrice180d = Rat(3)
           /\ r2.floorPrice = Frac(12, 5) /\ r2.ceilingPrice = Frac(51, 10)
           /\ r2.fixedNearTokens = Rat(2400)
           /\ r2.priceAtPayout = Rat(5) /\ r2.usdValueAtPayout = Rat(12000)

---------------------------------------------------------------------------
(* The configuration of the band.                                          *)

---------------------------------------------------------------------------
(* The yearly summaries.                                                   *)

Summarized == pc = "summaries"

\* C16: summarizeByYear returns one summary for each distinct year of the
\* records and none for any other year, in strictly ascending order of
\* year, each with totalPayouts = the number of records of its year; no
\* records give no summaries.
C16_OneSummaryPerYear ==
    Summarized =>
        /\ Len(summaries) = Cardinality({r.year : r \in Records})
        /\ {s.year : s \in Summaries} = {r.year : r \in Records}
        /\ \A i \in 1..(Len(summaries) - 1) :
               summaries[i].year < summaries[i + 1].year
        /\ \A s \in Summaries : s.totalPayouts = RecordsOfYear(s.year)
        /\ results = <<>> => summaries = <<>>

\* Years listed newest first: two summaries, 2021 before 2022, each with
\* the 12 records of its year.
C16_Witness ==
    /\ Summarized
    /\ years = <<2022, 2021>>
    /\ Len(summaries) = 2
    /\ summaries[1].year = 2021 /\ summaries[1].totalPayouts = 12
    /\ summaries[2].year = 2022 /\ summaries[2].totalPayouts = 12
    /\ Len(results) = 24

\* The records of year y whose flag is set, in the order of results.
CeilingHits(y) == SelectSeq(results, LAMBDA r : r.year = y /\ r.ceilingHit)
FloorHits(y) == SelectSeq(results, LAMBDA r : r.year = y /\ r.floorHit)

\* C17: with valid params and positive prices, nearSavedByCeiling of a year
\* is the sum of fixedNearTokens - effectiveNearTokens over its ceiling-hit
\* records, nearAddedByFloor the sum of effectiveNearTokens -
\* fixedNearTokens over its floor-hit records, and neither is negative.
C17_SavedAndAdded ==
    (Summarized /\ ValidParams /\ PositivePrices) =>
        \A s \in Summaries :
            LET ch == CeilingHits(s.year)
                fh == FloorHits(s.year)
            IN  /\ s.nearSavedByCeiling =
                       SumRat([i \in 1..Len(ch) |->
                                  Sub(ch[i].fixedNearTokens, ch[i].effectiveNearTokens)])
                /\ s.nearAddedByFloor =
                       SumRat([i \in 1..Len(fh) |->
                                  Sub(fh[i].effectiveNearTokens, fh[i].fixedNearTokens)])
                /\ Leq(Zero, s.nearSavedByCeiling)
                /\ Leq(Zero, s.nearAddedByFloor)

\* 2021 at baseline 2.00 and a target of 7200: three floor hits at 1.00 add
\* 3 x 2160 tokens, four ceiling hits at 5.00 save 4 x 1152.
C17_Witness ==
    /\ Summarized /\ ValidParams /\ PositivePrices
    /\ \E s \in Summaries :
           /\ s.year = 2021
           /\ s.floorCount = 3 /\ s.nearAddedByFloor = Rat(6480)
           /\ s.ceilingCount = 4 /\ s.nearSavedByCeiling = Rat(4608)

RecordsOf(y) == SelectSeq(results, LAMBDA r : r.year = y)

\* C18: avgUsdValue of every year summary is the mean of effectiveUsdValue
\* over the records of the year.
C18_AvgEffectiveUsd ==
    Summarized =>
        \A s \in Summaries :
            LET rs == RecordsOf(s.year)
            IN  s.avgUsdValue =
                    Div(SumRat([i \in 1..Len(rs) |-> rs[i].effectiveUsdValue]),
                        Rat(Len(rs)))

\* A year with band hits, where the mean of the unadjusted usdValueAtPayout
\* is another number than avgUsdValue.
C18_Witness ==
    /\ Summarized
    /\ \E s \in Summaries :
           LET rs == RecordsOf(s.year)
           IN  /\ s.floorCount > 0 /\ s.ceilingCount > 0
               /\ s.avgUsdValue #
                      Div(SumRat([i \in 1..Len(rs) |-> rs[i].usdValueAtPayout]),
                          Rat(Len(rs)))

---------------------------------------------------------------------------
(* The order of the years.                                                 *)

DuplicateFree(ys) == \A i, j \in 1..Len(ys) : ys[i] = ys[j] => i = j

\* The other orders of a duplicate-free list.
Reorderings(ys) ==
    {zs \in [1..Len(ys) -> {ys[i] : i \in 1..Len(ys)}] :
        DuplicateFree(zs) /\ zs # ys}

\* C20: for a duplicate-free years list, calculatePayouts returns the same
\* record sequence for every reordering of the list.
C20_YearOrderIndependent ==
    (Calculated /\ DuplicateFree(years)) =>
        \A zs \in Reorderings(years) :
            calculatePayouts(priceData, params, zs) = results

\* The years processed newest first: 24 records, those of 2021 first, the
\* January record of 2021 (paid 2022-01-01) ahead of every record of 2022.
C20_Witness ==
    /\ Calculated
    /\ years = <<2022, 2021>>
    /\ Reorderings(years) = {<<2021, 2022>>}
    /\ Len(results) = 24
    /\ results[1].year = 2021
    /\ results[12].year = 2021 /\ results[12].month = 1
    /\ results[13].year = 2022

---------------------------------------------------------------------------
(* The value paid.                                                         *)

\* C21: with valid params and positive prices every record, whatever its
\* status, has monthlyUsdTarget x floorPercent <= effectiveUsdValue <=
\* monthlyUsdTarget x ceilingPercent.
C21_PaidWithinGuarantee ==
    (Calculated /\ ValidParams /\ PositivePrices) =>
        \A r \in Records :
            /\ Leq(FloorUsd, r.effectiveUsdValue)
            /\ Leq(r.effectiveUsdValue, CeilingUsd)

\* A floor hit paid the minimum, a ceiling hit paid the cap although its
\* fixed tokens were worth more, and a Normal record paid strictly between.
C21_Witness ==
    /\ Calculated /\ ValidParams /\ PositivePrices
    /\ \E r1, r2, r3 \in Records :
           /\ r1.floorHit /\ r1.effectiveUsdValue = FloorUsd
           /\ Less(r1.usdValueAtPayout, FloorUsd)
           /\ r2.ceilingHit /\ r2.effectiveUsdValue = CeilingUsd
           /\ Less(CeilingUsd, r2.usdValueAtPayout)
           /\ r3.status = "Normal"
           /\ Less(FloorUsd, r3.effectiveUsdValue)
           /\ Less(r3.effectiveUsdValue, CeilingUsd)

---------------------------------------------------------------------------
(* The params the page passes on.                                          *)

\* C22: in every state of the page, whatever was typed into its three
\* inputs, the params it passes to calculatePayouts satisfy
\* monthlyUsdTarget > 0 and 0 < floorPercent < 1 < ceilingPercent.
C22_PageParamsValid == pc = "page" => ValidParams

---------------------------------------------------------------------------
(* The values of a year.                                                   *)

SameYearValues(a, b) ==
    /\ a.basePrice180d = b.basePrice180d
    /\ a.floorPrice = b.floorPrice
    /\ a.ceilingPrice = b.ceilingPrice
    /\ a.fixedNearTokens = b.fixedNearTokens

\* C23: the records of one result that carry the same year have the same
\* basePrice180d, floorPrice, ceilingPrice and fixedNearTokens, also when
\* the year is listed more than once, and the summary of the year carries
\* those values.
C23_YearInvariantValues ==
    Calculated =>
        /\ \A y \in {r.year : r \in Records} :
               LET rs == RecordsOf(y)
               IN  \A i \in 1..Len(rs) : SameYearValues(rs[i], rs[1])
        /\ Summarized =>
               \A s \in Summaries :
                   \A r \in Records : r.year = s.year => SameYearValues(s, r)

\* A year listed more than once: 12 records of 2021 for each time it is
\* listed, all at baseline 2.00, and a summary with the same values.
C23_Witness ==
    /\ Summarized
    /\ Occurrences(2021) >= 2
    /\ RecordsOfYear(2021) = 12 * Occurrences(2021)
    /\ \E s \in Summaries :
           /\ s.year = 2021 /\ s.totalPayouts = 12 * Occurrences(2021)
           /\ s.basePrice180d = Rat(2)
           /\ \A r \in Records : r.year = 2021 => SameYearValues(s, r)

---------------------------------------------------------------------------
(* The arguments.                                                          *)

\* C24: a call of calculatePayouts leaves the series, params and years as
\* they were, and a call of summarizeByYear leaves the records it was given
\* as they were.
C24_ArgumentsUnchanged ==
    [][ /\ (pc = "ready" /\ pc' = "payouts") =>
               priceData' = priceData /\ params' = params /\ years' = years
        /\ (pc = "payouts" /\ pc' = "summaries") =>
               results' = results ]_vars

\* After both calls: the series still newest first and the years still
\* newest first, the records in chronological order.
C24_Witness ==
    /\ Summarized
    /\ years = <<2022, 2021>>
    /\ Len(priceData) > 1
    /\ DateKey(priceData[1].date) > DateKey(priceData[2].date)
    /\ Len(results) > 1
    /\ results[1].year = 2021
    /\ results[Len(results)].year = 2022
    /\ Len(summaries) = 2

---------------------------------------------------------------------------
(* The baseline and the payout window.                                     *)

\* A series that agrees with data on every observation dated before 1
\* January of year y and is priced at 4.00 from that day on.
Repriced(data, y) ==
    [i \in 1..Len(data) |->
        IF ToTime(data[i].date) >= ToTime(Date(y, 1, 1))
        THEN [date |-> data[i].date, close |-> Rat(4)]
        ELSE data[i]]

\* C25: for a series sorted by date, the baseline of a year and the values
\* derived from it are those of any series that agrees with it before 1
\* January of the year, and the observation that priced a record of the
\* year is dated on or after 1 February of the year, outside the window
\* that was averaged into the baseline.
C25_BaselineIndependentOfPayouts ==
    (pc = "payouts" /\ SortedAscending(priceData)) =>
        /\ \A y \in {years[i] : i \in 1..Len(years)} :
               LET other == Repriced(priceData, y)
                   rs    == YearLoopBody(other, params, y)
               IN  /\ get180dAverage(other, Date(y, 1, 1))
                          = get180dAverage(priceData, Date(y, 1, 1))
                   /\ \A r \in Records :
                          r.year = y =>
                              \A j \in 1..Len(rs) : SameYearValues(r, rs[j])
        /\ \A t \in {r.payoutDate : r \in Records} :
               LET src == PriceSource(priceData, t)
               IN  \A r \in Records :
                       r.payoutDate = t =>
                           LET target == ToTime(Date(r.year, 1, 1))
                           IN  /\ src # Null
                               /\ r.priceAtPayout = src.close
                               /\ ToTime(src.date) >= ToTime(Date(r.year, 2, 1))
                               /\ ~InLookback(ToTime(src.date),
                                              LookbackStart(target), target)

\* A year with a baseline whose payout window is priced otherwise in the
\* other series: the records of the other run pay at 4.00, those of this
\* run at other prices, from the same baseline.
C25_Witness ==
    /\ pc = "payouts" /\ SortedAscending(priceData)
    /\ \E r \in Records :
           LET rs == YearLoopBody(Repriced(priceData, r.year), params, r.year)
           IN  /\ r.priceAtPayout # Rat(4)
               /\ Len(rs) = 12
               /\ rs[1].priceAtPayout = Rat(4)
               /\ rs[1].basePrice180d = r.basePrice180d
               /\ Repriced(priceData, r.year) # priceData

---------------------------------------------------------------------------
(* The counts of a year.                                                   *)

\* C26: with valid params every year summary has floorCount + ceilingCount
\* + normalCount = totalPayouts.
C26_CountsAddUp ==
    (Summarized /\ ValidParams) =>
        \A s \in Summaries :
            s.floorCount + s.ceilingCount + s.normalCount = s.totalPayouts

\* 2021 with a valid band: 3 floor hits, 4 ceiling hits and 5 Normal
\* records, 12 in all.
C26_Witness ==
    /\ Summarized /\ ValidParams
    /\ \E s \in Summaries :
           /\ s.floorCount = 3 /\ s.ceilingCount = 4 /\ s.normalCount = 5
           /\ s.totalPayouts = 12

---------------------------------------------------------------------------
(* The January payout.                                                     *)

\* The payout dates of year y: 1 February of y to 1 January of y + 1.
InPayoutWindow(t, y) ==
    /\ DateKey(Date(y, 2, 1)) <= DateKey(t)
    /\ DateKey(t) <= DateKey(Date(y + 1, 1, 1))

\* C27: a record paid on 1 January of Y + 1 carries year Y and month 1 and
\* is counted in the summary of Y, whose totalPayouts is the number of
\* records paid from 1 February of Y to 1 January of Y + 1; when years has
\* no duplicates no two records share a payoutDate.
C27_JanuaryBelongsToPreviousYear ==
    Calculated =>
        /\ \A r \in Records :
               r.payoutDate.m = 1 =>
                   /\ r.payoutDate = Date(r.year + 1, 1, 1)
                   /\ r.month = 1
        /\ Summarized =>
               \A s \in Summaries :
                   s.totalPayouts =
                       Cardinality({i \in 1..Len(results) :
                                       InPayoutWindow(results[i].payoutDate, s.year)})
        /\ DuplicateFree(years) =>
               \A i, j \in 1..Len(results) :
                   results[i].payoutDate = results[j].payoutDate => i = j

\* Two adjacent years: the record paid on 2022-01-01 belongs to 2021 with
\* month 1, the next record, paid on 2022-02-01, to 2022; 12 records each.
C27_Witness ==
    /\ Summarized
    /\ DuplicateFree(years)
    /\ Len(results) = 24
    /\ results[12].payoutDate = Date(2022, 1, 1)
    /\ results[12].year = 2021 /\ results[12].month = 1
    /\ results[13].payoutDate = Date(2022, 2, 1)
    /\ results[13].year = 2022
    /\ \A s \in Summaries : s.totalPayouts = 12

---------------------------------------------------------------------------
(* The months of a year.                                                   *)

\* C28: for a series sorted by date the months of a year that have a
\* record are a prefix of February..January: a month index without a
\* record is followed by no month index with one, and a payout date that
\* no observation reaches has no record.
C28_EmittedMonthsArePrefix ==
    (Calculated /\ SortedAscending(priceData)) =>
        \A y \in {r.year : r \in Records} :
            /\ \A m \in FirstMonth..(LastMonth - 1) :
                   RecordsOn(y, PayoutDate(y, m)) = 0 =>
                       RecordsOn(y, PayoutDate(y, m + 1)) = 0
            /\ \A m \in FirstMonth..LastMonth :
                   ~Resolves(PayoutDate(y, m)) =>
                       RecordsOn(y, PayoutDate(y, m)) = 0

\* A sorted series that ends in June 2021: 2021 has its records of
\* February..June and none from July on.
C28_Witness ==
    /\ Calculated /\ SortedAscending(priceData)
    /\ years # <<>>
    /\ \A i \in 1..Len(years) : years[i] = 2021
    /\ \A m \in 2..6 : RecordsOn(2021, PayoutDate(2021, m)) = Len(years)
    /\ \A m \in 7..13 :
           /\ ~Resolves(PayoutDate(2021, m))
           /\ RecordsOn(2021, PayoutDate(2021, m)) = 0

---------------------------------------------------------------------------
(* The malformed band.                                                     *)

\* C29: a record priced both below its floorPrice and above its
\* ceilingPrice, which takes floorPrice > ceilingPrice, has both flags set
\* and is treated as a floor hit: status FLOOR HIT, effectiveUsdValue =
\* monthlyUsdTarget x floorPercent, effectiveNearTokens = that value /
\* priceAtPayout.
C29_FloorTakesPrecedence ==
    Calculated =>
        \A r \in Records :
            ( /\ Less(r.priceAtPayout, r.floorPrice)
              /\ Less(r.ceilingPrice, r.priceAtPayout) ) =>
                /\ Less(r.ceilingPrice, r.floorPrice)
                /\ r.floorHit /\ r.ceilingHit
                /\ r.status = "FLOOR HIT"
                /\ r.effectiveUsdValue = FloorUsd
                /\ r.effectiveNearTokens = Div(FloorUsd, r.priceAtPayout)
                /\ r.effectiveUsdValue # CeilingUsd

\* Band 3.40 (floor) over 1.60 (ceiling) at baseline 2.00: the record
\* priced 2.00 is below the floor and above the ceiling and is paid
\* 7200 x 1.7 = 12240, that is 6120 tokens.
C29_Witness ==
    /\ Calculated
    /\ \E r \in Records :
           /\ r.floorPrice = Frac(17, 5) /\ r.ceilingPrice = Frac(8, 5)
           /\ r.priceAtPayout = Rat(2)
           /\ r.floorHit /\ r.ceilingHit
           /\ r.status = "FLOOR HIT"
           /\ r.effectiveUsdValue = Rat(12240)
           /\ r.effectiveNearTokens = Rat(6120)

====
